---- MODULE Spec2Model ----
(***************************************************************************)
(* rkyv serializer core: the Serializer aggregate of src/rkyv/src/ser/mod.rs *)
(* composed of one Writer, one Allocator and one Sharing component.         *)
(*                                                                         *)
(* The aggregate (struct, constructor, decomposition and the forwarding    *)
(* trait impls) is translated from mod.rs.  The components themselves live *)
(* in the modules ser::writer, ser::allocator and ser::sharing (mod.rs     *)
(* lines 3-5), and are modelled from the component contracts of the        *)
(* specification (sections 4.1 - 4.3).                                     *)
(***************************************************************************)
EXTENDS Integers, Sequences, FiniteSets, TLC

VARIABLES
    state,      \* "open" or "consumed" (self moved out by into_raw_parts / into_writer)
    ser,        \* the Serializer value: [writer, allocator, sharing]
    out,        \* what the consuming call returned: <<>> before, <<w, a, s>> or <<w>> after
    call,       \* the last call made on the Serializer, its arguments and its result
    written,    \* history: sum of the byte-lengths of the writes that succeeded
    open,       \* history: the regions handed out by acquire and not yet given back, oldest first
    recorded,   \* history: address -> position of the first record that succeeded
    scenario    \* history: how many steps of the end-to-end scenario the calls so far match

vars == <<state, ser, out, call, written, open, recorded, scenario>>

----------------------------------------------------------------------------
(* Bounds of the model *)

WriterCap == 5      \* capacity of the writer's sink, in bytes
MaxDepth == 2       \* most scratch regions open at once
ArenaLimit == 9     \* most scratch memory the ambient allocator gives the growable arena

\* byte strings passed to write
Chunks == { <<>>, <<1, 2>>, <<3, 4, 5>> }
\* sizes and alignments of the layouts passed to acquire/release
Sizes == {0, 1, 4, 9}
Aligns == {1, 4}
\* capacities of the scratch buffer handed to the allocator
Caps == {4, 8}
\* source addresses passed to lookup/record
Addresses == {16, 32}
\* archive positions passed to record
Positions == {0, 4}

EmptyTable == [a \in {} |-> 0]
NoCall == [op |-> "new", bytes |-> <<>>, size |-> 0, align |-> 1, ptr |-> 0,
           address |-> 0, pos |-> 0, before |-> <<>>, res |-> "Ok", val |-> <<>>]

----------------------------------------------------------------------------
(* ser::writer -- a positional byte sink (spec 4.1) *)

Positional_pos(w) == Len(w.buf)

Writer_write(w, bytes) ==
    IF Len(w.buf) + Len(bytes) > w.cap
    THEN [self |-> w, res |-> "CapacityError", val |-> <<>>]
    ELSE [self |-> [w EXCEPT !.buf = @ \o bytes], res |-> "Ok", val |-> <<>>]

----------------------------------------------------------------------------
(* ser::allocator -- scratch arena with stack discipline (spec 4.2)        *)
(* A region is [ptr, size, align]: ptr is its offset in the backing buffer *)

Padding(used, align) == (align - (used % align)) % align

PushRegion(a, size, align) ==
    LET ptr == a.used + Padding(a.used, align)
    IN [a EXCEPT !.regions = Append(@, [ptr |-> ptr, size |-> size, align |-> align]),
                 !.used = ptr + size]

\* bounded sub-allocator: one fixed-capacity caller-supplied buffer
SubAllocator_push_alloc(a, size, align) ==
    IF Padding(a.used, align) + size > a.cap - a.used
    THEN [self |-> a, res |-> "OutOfMemory", val |-> <<>>]
    ELSE LET b == PushRegion(a, size, align)
         IN [self |-> b, res |-> "Ok", val |-> <<b.regions[Len(b.regions)].ptr, size>>]

\* growable arena handle: asks the ambient allocator for more, up to its limit
ArenaHandle_push_alloc(a, size, align) ==
    IF a.used + Padding(a.used, align) + size > a.limit
    THEN [self |-> a, res |-> "OutOfMemory", val |-> <<>>]
    ELSE LET b == PushRegion(a, size, align)
         IN [self |-> b, res |-> "Ok", val |-> <<b.regions[Len(b.regions)].ptr, size>>]

Allocator_push_alloc(a, size, align) ==
    IF a.kind = "SubAllocator"
    THEN SubAllocator_push_alloc(a, size, align)
    ELSE ArenaHandle_push_alloc(a, size, align)

IsTop(a, ptr, size, align) ==
    /\ a.regions # <<>>
    /\ a.regions[Len(a.regions)] = [ptr |-> ptr, size |-> size, align |-> align]

\* the capacity in use when `regions` are the open ones: the end of the newest
UsedBy(regions) ==
    IF regions = <<>> THEN 0
    ELSE regions[Len(regions)].ptr + regions[Len(regions)].size

Allocator_pop_alloc(a, ptr, size, align) ==
    IF ~IsTop(a, ptr, size, align)
    THEN [self |-> a, res |-> "AllocationMismatch", val |-> <<>>]
    ELSE LET rest == SubSeq(a.regions, 1, Len(a.regions) - 1)
         IN [self |-> [a EXCEPT !.regions = rest, !.used = UsedBy(rest)],
             res |-> "Ok", val |-> <<>>]

----------------------------------------------------------------------------
(* ser::sharing -- address -> position table, and the no-op variant (spec 4.3) *)

Share_get_shared_ptr(s, address) ==
    IF address \in DOMAIN s.table THEN <<s.table[address]>> ELSE <<>>

Share_add_shared_ptr(s, address, pos) ==
    IF address \in DOMAIN s.table
    THEN IF s.table[address] = pos
         THEN [self |-> s, res |-> "Ok", val |-> <<>>]
         ELSE [self |-> s, res |-> "DuplicateSharedPointer", val |-> <<>>]
    ELSE [self |-> [s EXCEPT !.table = [a \in DOMAIN @ \cup {address} |->
                                          IF a = address THEN pos ELSE @[a]]],
          res |-> "Ok", val |-> <<>>]

Unshare_get_shared_ptr(s, address) == <<>>

Unshare_add_shared_ptr(s, address, pos) == [self |-> s, res |-> "Ok", val |-> <<>>]

Sharing_get_shared_ptr(s, address) ==
    IF s.kind = "Share" THEN Share_get_shared_ptr(s, address)
    ELSE Unshare_get_shared_ptr(s, address)

Sharing_add_shared_ptr(s, address, pos) ==
    IF s.kind = "Share" THEN Share_add_shared_ptr(s, address, pos)
    ELSE Unshare_add_shared_ptr(s, address, pos)

----------------------------------------------------------------------------
(* ser/mod.rs -- the Serializer aggregate *)

Serializer_new(writer, allocator, sharing) ==
    [writer |-> writer, allocator |-> allocator, sharing |-> sharing]

\* mutant: the allocator and the sharing come back in the wrong order
Serializer_into_raw_parts_swapped(s) == <<s.writer, s.sharing, s.allocator>>

Serializer_into_raw_parts(s) == <<s.writer, s.allocator, s.sharing>>

\* mutant: a new, empty writer is returned in place of the owned one
Serializer_into_writer_fresh(s) == <<[s.writer EXCEPT !.buf = <<>>]>>

Serializer_into_writer(s) == <<s.writer>>

\* mutant: reports the capacity of the sink instead of its length
Serializer_pos_capacity(s) == s.writer.cap

\* mutant: reports the allocator's bump offset instead of the writer's position
Serializer_pos_allocator(s) == s.allocator.used

Serializer_pos(s) == Positional_pos(s.writer)

\* mutant: the writer is written to, but its new state is not kept
Serializer_write_lost(s, bytes) ==
    LET r == Writer_write(s.writer, bytes)
    IN [self |-> s, res |-> r.res, val |-> r.val]

\* mutant: the bytes replace what the writer holds instead of being appended
Serializer_write_reset(s, bytes) ==
    LET r == Writer_write(s.writer, bytes)
    IN [self |-> [s EXCEPT !.writer = IF r.res = "Ok" THEN [@ EXCEPT !.buf = bytes] ELSE @],
        res |-> r.res, val |-> r.val]

\* mutant: the writer's error is replaced by an error of the aggregate's own
Serializer_write_wrap(s, bytes) ==
    LET r == Writer_write(s.writer, bytes)
    IN [self |-> [s EXCEPT !.writer = r.self],
        res |-> IF r.res = "Ok" THEN "Ok" ELSE "SerializerError", val |-> r.val]

Serializer_write(s, bytes) ==
    LET r == Writer_write(s.writer, bytes)
    IN [self |-> [s EXCEPT !.writer = r.self], res |-> r.res, val |-> r.val]

\* mutant: a request that fails is tried again as an empty request
Serializer_push_alloc_retry(s, size, align) ==
    LET r == Allocator_push_alloc(s.allocator, size, align)
        q == IF r.res = "Ok" THEN r ELSE Allocator_push_alloc(s.allocator, 0, align)
    IN [self |-> [s EXCEPT !.allocator = q.self], res |-> q.res, val |-> q.val]

\* mutant: the alignment of the layout is not passed on
Serializer_push_alloc_unaligned(s, size, align) ==
    LET r == Allocator_push_alloc(s.allocator, size, 1)
    IN [self |-> [s EXCEPT !.allocator = r.self], res |-> r.res, val |-> r.val]

\* mutant: an acquire also appends a byte to the archive
Serializer_push_alloc_writes(s, size, align) ==
    LET r == Allocator_push_alloc(s.allocator, size, align)
        w == Writer_write(s.writer, <<0>>)
    IN [self |-> [s EXCEPT !.allocator = r.self, !.writer = w.self],
        res |-> r.res, val |-> r.val]

\* mutant: the requested size is rounded up to a multiple of the alignment
Serializer_push_alloc_rounded(s, size, align) ==
    LET r == Allocator_push_alloc(s.allocator, size + Padding(size, align), align)
    IN [self |-> [s EXCEPT !.allocator = r.self], res |-> r.res, val |-> r.val]

Serializer_push_alloc(s, size, align) ==
    LET r == Allocator_push_alloc(s.allocator, size, align)
    IN [self |-> [s EXCEPT !.allocator = r.self], res |-> r.res, val |-> r.val]

\* mutant: the allocator is called, but its new state is not kept
Serializer_pop_alloc_lost(s, ptr, size, align) ==
    LET r == Allocator_pop_alloc(s.allocator, ptr, size, align)
    IN [self |-> s, res |-> r.res, val |-> r.val]

\* mutant: the allocator's error is caught and the call reports success
Serializer_pop_alloc_swallow(s, ptr, size, align) ==
    LET r == Allocator_pop_alloc(s.allocator, ptr, size, align)
    IN [self |-> [s EXCEPT !.allocator = r.self], res |-> "Ok", val |-> r.val]

Serializer_pop_alloc(s, ptr, size, align) ==
    LET r == Allocator_pop_alloc(s.allocator, ptr, size, align)
    IN [self |-> [s EXCEPT !.allocator = r.self], res |-> r.res, val |-> r.val]

\* mutant: looks up the address one pointer-width further on
Serializer_get_shared_ptr_shifted(s, address) == Sharing_get_shared_ptr(s.sharing, address + 16)

Serializer_get_shared_ptr(s, address) == Sharing_get_shared_ptr(s.sharing, address)

\* mutant: the sharing component's error is caught and the call reports success
Serializer_add_shared_ptr_swallow(s, address, pos) ==
    LET r == Sharing_add_shared_ptr(s.sharing, address, pos)
    IN [self |-> [s EXCEPT !.sharing = r.self], res |-> "Ok", val |-> r.val]

\* mutant: records the writer's current position instead of the given one
Serializer_add_shared_ptr_here(s, address, pos) ==
    LET r == Sharing_add_shared_ptr(s.sharing, address, Serializer_pos(s))
    IN [self |-> [s EXCEPT !.sharing = r.self], res |-> r.res, val |-> r.val]

\* mutant: a duplicate record overwrites the position recorded before
Serializer_add_shared_ptr_overwrite(s, address, pos) ==
    LET r == Sharing_add_shared_ptr(s.sharing, address, pos)
    IN IF r.res = "Ok"
       THEN [self |-> [s EXCEPT !.sharing = r.self], res |-> r.res, val |-> r.val]
       ELSE [self |-> [s EXCEPT !.sharing.table[address] = pos], res |-> "Ok", val |-> <<>>]

\* mutant: keeps the record in the aggregate's own table, whatever the component does
Serializer_add_shared_ptr_direct(s, address, pos) ==
    LET r == Sharing_add_shared_ptr(s.sharing, address, pos)
    IN [self |-> [s EXCEPT !.sharing.table = [a \in DOMAIN @ \cup {address} |->
                                                IF a = address THEN pos ELSE @[a]]],
        res |-> r.res, val |-> r.val]

Serializer_add_shared_ptr(s, address, pos) ==
    LET r == Sharing_add_shared_ptr(s.sharing, address, pos)
    IN [self |-> [s EXCEPT !.sharing = r.self], res |-> r.res, val |-> r.val]

\* CoreSerializer = Serializer<W, SubAllocator, Unshare>
CoreSerializer(cap) ==
    Serializer_new([buf |-> <<>>, cap |-> WriterCap],
                   [kind |-> "SubAllocator", cap |-> cap, limit |-> cap,
                    used |-> 0, regions |-> <<>>],
                   [kind |-> "Unshare", table |-> EmptyTable])

\* DefaultSerializer = Serializer<W, ArenaHandle, Share>
DefaultSerializer ==
    Serializer_new([buf |-> <<>>, cap |-> WriterCap],
                   [kind |-> "ArenaHandle", cap |-> 0, limit |-> ArenaLimit,
                    used |-> 0, regions |-> <<>>],
                   [kind |-> "Share", table |-> EmptyTable])

----------------------------------------------------------------------------
(* The end-to-end scenario of spec section 8, as a monitor of the calls:   *)
(* write 3 bytes, acquire 4 bytes, release that region, write 2 bytes,     *)
(* acquire 9 bytes, on a bounded-profile Serializer with 8 bytes of scratch *)

ScenarioStart(s) ==
    IF s.allocator.kind = "SubAllocator" /\ s.allocator.cap = 8 /\ s.sharing.kind = "Unshare"
    THEN 0 ELSE -1

ScenarioMatches(n, prev, c) ==
    \/ n = 0 /\ c.op = "write" /\ Len(c.bytes) = 3
    \/ n = 1 /\ c.op = "push_alloc" /\ c.size = 4
    \/ n = 2 /\ c.op = "pop_alloc" /\ prev.op = "push_alloc" /\ prev.res = "Ok"
             /\ c.ptr = prev.val[1] /\ c.size = prev.size /\ c.align = prev.align
    \/ n = 3 /\ c.op = "write" /\ Len(c.bytes) = 2
    \/ n = 4 /\ c.op = "push_alloc" /\ c.size = 9

ScenarioStep(n, prev, c) == IF n >= 0 /\ ScenarioMatches(n, prev, c) THEN n + 1 ELSE -1

----------------------------------------------------------------------------
(* State machine *)

Init ==
    /\ state = "open"
    /\ ser \in {CoreSerializer(cap) : cap \in Caps} \cup {DefaultSerializer}
    /\ out = <<>>
    /\ call = NoCall
    /\ written = 0
    /\ open = <<>>
    /\ recorded = EmptyTable
    /\ scenario = ScenarioStart(ser)

\* the caller's record of a call and its result, and the histories that follow from it
Returns(c, r) ==
    /\ call' = [c EXCEPT !.res = r.res, !.val = r.val]
    /\ ser' = r.self
    /\ scenario' = ScenarioStep(scenario, call, c)
    /\ written' = IF c.op = "write" /\ r.res = "Ok" THEN written + Len(c.bytes) ELSE written
    /\ open' = IF c.op = "push_alloc" /\ r.res = "Ok"
               THEN Append(open, [ptr |-> r.val[1], size |-> c.size, align |-> c.align])
               ELSE IF c.op = "pop_alloc" /\ r.res = "Ok"
               THEN SubSeq(open, 1, Len(open) - 1)
               ELSE open
    /\ recorded' = IF c.op = "add_shared_ptr" /\ r.res = "Ok" /\ c.address \notin DOMAIN recorded
                   THEN [a \in DOMAIN recorded \cup {c.address} |->
                           IF a = c.address THEN c.pos ELSE recorded[a]]
                   ELSE recorded
    /\ UNCHANGED <<state, out>>

\* the position first recorded for an address, as the caller remembers it
Seen(address) == IF address \in DOMAIN recorded THEN <<recorded[address]>> ELSE <<>>

Pos ==
    /\ state = "open"
    /\ Returns([NoCall EXCEPT !.op = "pos", !.before = <<written>>],
               [self |-> ser, res |-> "Ok", val |-> <<Serializer_pos(ser)>>])

Write ==
    /\ state = "open"
    /\ \E bytes \in Chunks :
          Returns([NoCall EXCEPT !.op = "write", !.bytes = bytes, !.before = <<written>>],
                  Serializer_write(ser, bytes))

PushAlloc ==
    /\ state = "open"
    /\ Len(ser.allocator.regions) < MaxDepth
    /\ \E size \in Sizes, align \in Aligns :
          Returns([NoCall EXCEPT !.op = "push_alloc", !.size = size, !.align = align,
                                 !.before = <<Len(open)>>],
                  Serializer_push_alloc(ser, size, align))

\* handles the caller can hold: those of the open regions, and a stale one
Handles(a) == {a.regions[i].ptr : i \in DOMAIN a.regions} \cup {a.used}

\* layouts the caller can pass back: those of the open regions, and an unrelated one
Layouts(a) == {<<a.regions[i].size, a.regions[i].align>> : i \in DOMAIN a.regions} \cup {<<1, 1>>}

PopAlloc ==
    /\ state = "open"
    /\ \E ptr \in Handles(ser.allocator), layout \in Layouts(ser.allocator) :
          Returns([NoCall EXCEPT !.op = "pop_alloc", !.ptr = ptr,
                                 !.size = layout[1], !.align = layout[2],
                                 !.before = <<Len(open)>>],
                  Serializer_pop_alloc(ser, ptr, layout[1], layout[2]))

GetSharedPtr ==
    /\ state = "open"
    /\ \E address \in Addresses :
          Returns([NoCall EXCEPT !.op = "get_shared_ptr", !.address = address,
                                 !.before = Seen(address)],
                  [self |-> ser, res |-> "Ok", val |-> Serializer_get_shared_ptr(ser, address)])

AddSharedPtr ==
    /\ state = "open"
    /\ \E address \in Addresses, pos \in Positions :
          Returns([NoCall EXCEPT !.op = "add_shared_ptr", !.address = address, !.pos = pos,
                                 !.before = Seen(address)],
                  Serializer_add_shared_ptr(ser, address, pos))

IntoRawParts ==
    /\ state = "open"
    /\ state' = "consumed"
    /\ out' = Serializer_into_raw_parts(ser)
    /\ call' = [NoCall EXCEPT !.op = "into_raw_parts"]
    /\ scenario' = ScenarioStep(scenario, call, call')
    /\ UNCHANGED <<ser, written, open, recorded>>

\* mutant: the writer is handed out while the Serializer stays usable
IntoWriter_borrow ==
    /\ state = "open"
    /\ state' = "open"
    /\ out' = Serializer_into_writer(ser)
    /\ call' = [NoCall EXCEPT !.op = "into_writer"]
    /\ scenario' = ScenarioStep(scenario, call, call')
    /\ UNCHANGED <<ser, written, open, recorded>>

IntoWriter ==
    /\ state = "open"
    /\ state' = "consumed"
    /\ out' = Serializer_into_writer(ser)
    /\ call' = [NoCall EXCEPT !.op = "into_writer"]
    /\ scenario' = ScenarioStep(scenario, call, call')
    /\ UNCHANGED <<ser, written, open, recorded>>

Next ==
    \/ Pos
    \/ Write
    \/ PushAlloc
    \/ PopAlloc
    \/ GetSharedPtr
    \/ AddSharedPtr
    \/ IntoRawParts
    \/ IntoWriter

Spec == Init /\ [][Next]_vars

----------------------------------------------------------------------------
(* Properties *)

Top(regions) == regions[Len(regions)]

Lookup(address) == Serializer_get_shared_ptr(ser, address)

DeclaredCapacity(a) == IF a.kind = "SubAllocator" THEN a.cap ELSE a.limit

RECURSIVE SumSizes(_)
SumSizes(regions) ==
    IF regions = <<>> THEN 0
    ELSE regions[1].size + SumSizes(SubSeq(regions, 2, Len(regions)))

\* C1: on an open Serializer pos() equals the sum of the byte-lengths of the
\* write calls that succeeded since creation (0 for a fresh one).
C1_PosIsSumOfWrites == state = "open" => Serializer_pos(ser) = written

\* a write has been refused after others succeeded, and pos() is what they wrote
C1_Witness ==
    /\ state = "open" /\ call.op = "write" /\ call.res # "Ok"
    /\ written > 0 /\ Serializer_pos(ser) = written

\* C2: a release whose handle/layout is not the most recently acquired open
\* region fails with AllocationMismatch and leaves the stack of open regions
\* and the used capacity as they were.
C2_MismatchedReleaseFails ==
    [][(/\ call'.op = "pop_alloc"
        /\ \/ open = <<>>
           \/ Top(open) # [ptr |-> call'.ptr, size |-> call'.size, align |-> call'.align])
       => /\ call'.res = "AllocationMismatch"
          /\ ser'.allocator = ser.allocator
          /\ open' = open]_vars

\* the older of two open regions was released, and the call was refused
C2_Witness ==
    /\ call.op = "pop_alloc" /\ call.res = "AllocationMismatch"
    /\ Len(open) = 2 /\ open[1] # open[2]
    /\ open[1] = [ptr |-> call.ptr, size |-> call.size, align |-> call.align]
    /\ ser.allocator.regions = open

\* C3: with the bounded sub-allocator an acquire whose layout exceeds the
\* remaining capacity fails with OutOfMemory, allocates nothing and leaves the
\* open regions and the used capacity unchanged.
C3_OutOfMemoryKeepsArena ==
    [][(/\ call'.op = "push_alloc"
        /\ ser.allocator.kind = "SubAllocator"
        /\ Padding(ser.allocator.used, call'.align) + call'.size
             > ser.allocator.cap - ser.allocator.used)
       => /\ call'.res = "OutOfMemory"
          /\ call'.val = <<>>
          /\ ser'.allocator = ser.allocator
          /\ open' = open]_vars

\* a request that the whole buffer could hold was refused while a region was open
C3_Witness ==
    /\ call.op = "push_alloc" /\ call.res = "OutOfMemory"
    /\ ser.allocator.kind = "SubAllocator"
    /\ open # <<>> /\ ser.allocator.regions = open
    /\ call.size <= ser.allocator.cap

C5_LookupAfterRecord ==
    [][(ser.sharing.kind = "Share" /\ call'.op = "get_shared_ptr")
       => /\ (/\ call.op = "add_shared_ptr" /\ call.res = "Ok"
              /\ call.address = call'.address)
             => call'.val = <<call.pos>>
          /\ (call'.address \notin DOMAIN recorded) => call'.val = <<>>]_vars

\* one address is recorded and looked up, the other was never recorded
C5_Witness ==
    /\ ser.sharing.kind = "Share"
    /\ call.op = "get_shared_ptr" /\ call.val # <<>>
    /\ call.address \in DOMAIN recorded /\ call.val = <<recorded[call.address]>>
    /\ \E a \in Addresses : a \notin DOMAIN recorded /\ Lookup(a) = <<>>

\* C6: record(A, P2) after a successful record(A, P1) with P2 # P1 fails with
\* DuplicateSharedPointer and does not overwrite.
C6_DuplicateRecordFails ==
    [][(/\ ser.sharing.kind = "Share"
        /\ call'.op = "add_shared_ptr"
        /\ call'.address \in DOMAIN recorded
        /\ recorded[call'.address] # call'.pos)
       => /\ call'.res = "DuplicateSharedPointer"
          /\ ser'.sharing = ser.sharing]_vars

\* an address recorded at one position was recorded again at another
C6_Witness ==
    /\ ser.sharing.kind = "Share"
    /\ call.op = "add_shared_ptr" /\ call.res = "DuplicateSharedPointer"
    /\ call.before # <<>> /\ call.before # <<call.pos>>
    /\ Lookup(call.address) = call.before

\* C7: record(A, P) when A is already recorded at P succeeds again and leaves
\* the table as it was.
C7_SameRecordIdempotent ==
    [][(/\ ser.sharing.kind = "Share"
        /\ call'.op = "add_shared_ptr"
        /\ call'.address \in DOMAIN recorded
        /\ recorded[call'.address] = call'.pos)
       => /\ call'.res = "Ok"
          /\ ser'.sharing = ser.sharing]_vars

\* an address was recorded a second time at the position it already had
C7_Witness ==
    /\ ser.sharing.kind = "Share"
    /\ call.op = "add_shared_ptr" /\ call.res = "Ok"
    /\ call.before = <<call.pos>>
    /\ Lookup(call.address) = <<call.pos>>

\* C8: in every state of the Sharing table an address has at most one
\* position, and once record(A, P) has succeeded every lookup(A) returns P,
\* whatever calls came in between.
C8_RecordedPositionIsKept ==
    ser.sharing.kind = "Share"
    => /\ \A a \in Addresses :
             /\ Len(Lookup(a)) <= 1
             /\ Lookup(a) = Seen(a)
       /\ (call.op = "get_shared_ptr" /\ call.before # <<>>) => call.val = call.before

\* a record of another position was refused and the first position is still found
C8_Witness ==
    /\ ser.sharing.kind = "Share"
    /\ call.op = "add_shared_ptr" /\ call.res = "DuplicateSharedPointer"
    /\ call.before # <<>> /\ call.pos \notin {call.before[1]}
    /\ Lookup(call.address) = <<recorded[call.address]>>
    /\ DOMAIN recorded = Addresses

\* C9: under Unshare every lookup returns "not found", whatever was recorded,
\* and every record succeeds and changes nothing, also for one address at two
\* positions.
C9_UnshareIsNoOp ==
    /\ [](ser.sharing.kind = "Unshare"
          => /\ \A a \in Addresses : Lookup(a) = <<>>
             /\ call.op = "get_shared_ptr" => call.val = <<>>)
    /\ [][(ser.sharing.kind = "Unshare" /\ call'.op = "add_shared_ptr")
          => /\ call'.res = "Ok"
             /\ ser' = ser]_vars

\* one address was recorded at two positions, both calls succeeded, nothing is found
C9_Witness ==
    /\ ser.sharing.kind = "Unshare"
    /\ call.op = "add_shared_ptr" /\ call.res = "Ok"
    /\ call.before # <<>> /\ call.before # <<call.pos>>
    /\ Lookup(call.address) = <<>>

\* C10: on a bounded-profile Serializer with 8 bytes of scratch and no sharing,
\* write 3 bytes, acquire 4 bytes, release that region, write 2 bytes succeeds
\* at every step and leaves pos() = 5; a following acquire of 9 bytes fails
\* with OutOfMemory and pos() is still 5.
C10_Scenario ==
    /\ scenario \in 1..4 => call.res = "Ok"
    /\ scenario = 4 => Serializer_pos(ser) = 5
    /\ scenario = 5 => call.res = "OutOfMemory" /\ Serializer_pos(ser) = 5

\* the five calls of the scenario have been made
C10_Witness ==
    /\ scenario = 5
    /\ ser.allocator.kind = "SubAllocator" /\ ser.allocator.cap = 8
    /\ call.op = "push_alloc" /\ call.size = 9

\* C11: the Serializer adds no logic of its own: every call made through it
\* returns what the same call made directly on the owned writer, allocator or
\* sharing component returns, and leaves that component in the same state.
C11_ForwardsUnmodified ==
    [][/\ call'.op = "pos"
          => call'.val = <<Positional_pos(ser.writer)>> /\ ser' = ser
       /\ call'.op = "write"
          => LET r == Writer_write(ser.writer, call'.bytes)
             IN call'.res = r.res /\ call'.val = r.val /\ ser'.writer = r.self
       /\ call'.op = "push_alloc"
          => LET r == Allocator_push_alloc(ser.allocator, call'.size, call'.align)
             IN call'.res = r.res /\ call'.val = r.val /\ ser'.allocator = r.self
       /\ call'.op = "pop_alloc"
          => LET r == Allocator_pop_alloc(ser.allocator, call'.ptr, call'.size, call'.align)
             IN call'.res = r.res /\ call'.val = r.val /\ ser'.allocator = r.self
       /\ call'.op = "get_shared_ptr"
          => call'.val = Sharing_get_shared_ptr(ser.sharing, call'.address) /\ ser' = ser
       /\ call'.op = "add_shared_ptr"
          => LET r == Sharing_add_shared_ptr(ser.sharing, call'.address, call'.pos)
             IN call'.res = r.res /\ call'.val = r.val /\ ser'.sharing = r.self]_vars

\* an acquire of a size that is no multiple of its alignment went through, after
\* writes and records
C11_Witness ==
    /\ call.op = "push_alloc" /\ call.res = "Ok"
    /\ call.align = 4 /\ call.size = 1 /\ call.val[2] = 1
    /\ ser.allocator.regions = open
    /\ written > 0 /\ DOMAIN recorded # {}

\* C12: when the component's write, acquire, release or record fails with an
\* error, the call on the Serializer fails with exactly that error, after one
\* invocation of the component: nothing is caught, retried, replaced or wrapped.
C12_ErrorsPassThrough ==
    [][/\ LET r == Writer_write(ser.writer, call'.bytes)
          IN (call'.op = "write" /\ r.res # "Ok")
             => call'.res = r.res /\ ser'.writer = r.self
       /\ LET r == Allocator_push_alloc(ser.allocator, call'.size, call'.align)
          IN (call'.op = "push_alloc" /\ r.res # "Ok")
             => call'.res = r.res /\ ser'.allocator = r.self
       /\ LET r == Allocator_pop_alloc(ser.allocator, call'.ptr, call'.size, call'.align)
          IN (call'.op = "pop_alloc" /\ r.res # "Ok")
             => call'.res = r.res /\ ser'.allocator = r.self
       /\ LET r == Sharing_add_shared_ptr(ser.sharing, call'.address, call'.pos)
          IN (call'.op = "add_shared_ptr" /\ r.res # "Ok")
             => call'.res = r.res /\ ser'.sharing = r.self]_vars

\* the writer refused a write and the caller got the writer's error
C12_Witness ==
    /\ call.op = "write" /\ call.res = "CapacityError"
    /\ Len(ser.writer.buf) + Len(call.bytes) > ser.writer.cap
    /\ Len(ser.writer.buf) > 0

\* C13: a Serializer starts open, becomes consumed only by into_raw_parts or
\* into_writer, and once consumed nothing more happens to it: no capability
\* call and no second decomposition.
C13_OpenThenConsumed ==
    /\ state = "open"
    /\ [][/\ state = "open"
          /\ state' \in {"open", "consumed"}
          /\ state' = "consumed" <=> call'.op \in {"into_raw_parts", "into_writer"}]_vars

\* the Serializer was consumed by into_writer after it had been used
C13_Witness ==
    /\ state = "consumed" /\ call.op = "into_writer"
    /\ written > 0 /\ open # <<>>

\* C14: into_raw_parts gives back the triple the Serializer was made of, in
\* the order writer, allocator, sharing, each component in the state the calls
\* left it in.
C14_RawPartsRoundTrip ==
    /\ Serializer_into_raw_parts(Serializer_new(ser.writer, ser.allocator, ser.sharing))
         = <<ser.writer, ser.allocator, ser.sharing>>
    /\ call.op = "into_raw_parts"
       => /\ out = <<ser.writer, ser.allocator, ser.sharing>>
          /\ Positional_pos(out[1]) = written
          /\ out[2].regions = open
          /\ \A a \in Addresses :
                Sharing_get_shared_ptr(out[3], a)
                  = IF out[3].kind = "Share" THEN Seen(a) ELSE <<>>

\* a Serializer that was written to, holds an open region and a record was taken apart
C14_Witness ==
    /\ state = "consumed" /\ call.op = "into_raw_parts"
    /\ Len(out) = 3
    /\ written > 0 /\ open # <<>> /\ out[3].kind = "Share" /\ DOMAIN recorded # {}

C16_PosNeverDecreases ==
    [][/\ Serializer_pos(ser') >= Serializer_pos(ser)
       /\ (call'.op = "write" /\ call'.res = "Ok")
          => Serializer_pos(ser') = Serializer_pos(ser) + Len(call'.bytes)]_vars

\* a second write of some bytes succeeded
C16_Witness ==
    /\ call.op = "write" /\ call.res = "Ok" /\ Len(call.bytes) > 0
    /\ call.before[1] > 0
    /\ Serializer_pos(ser) = call.before[1] + Len(call.bytes)

\* C17: into_writer returns only the owned writer, as the writes left it: its
\* pos() is the Serializer's pos() before the call, whatever regions are open
\* and whatever the sharing table holds.
C17_IntoWriterKeepsPos ==
    call.op = "into_writer"
    => /\ Len(out) = 1
       /\ out[1] = ser.writer
       /\ Positional_pos(out[1]) = Serializer_pos(ser)
       /\ Positional_pos(out[1]) = written

\* the writer was taken out with a region still open and an address recorded
C17_Witness ==
    /\ state = "consumed" /\ call.op = "into_writer"
    /\ Len(out) = 1 /\ Positional_pos(out[1]) > 0
    /\ ser.allocator.regions # <<>> /\ DOMAIN ser.sharing.table # {}

\* C18: each call changes only its own component: write only the writer,
\* acquire and release only the allocator, record only the sharing table, pos
\* and lookup nothing; allocator and sharing calls never change pos().
C18_CallsTouchOwnComponent ==
    [][/\ call'.op = "write"
          => ser'.allocator = ser.allocator /\ ser'.sharing = ser.sharing
       /\ call'.op \in {"push_alloc", "pop_alloc"}
          => ser'.writer = ser.writer /\ ser'.sharing = ser.sharing
       /\ call'.op = "add_shared_ptr"
          => ser'.writer = ser.writer /\ ser'.allocator = ser.allocator
       /\ call'.op \in {"pos", "get_shared_ptr"} => ser' = ser
       /\ call'.op \in {"push_alloc", "pop_alloc", "get_shared_ptr", "add_shared_ptr"}
          => Serializer_pos(ser') = Serializer_pos(ser)]_vars

\* an acquire succeeded on a Serializer that holds bytes and a record
C18_Witness ==
    /\ call.op = "push_alloc" /\ call.res = "Ok" /\ call.size > 0
    /\ Serializer_pos(ser) = written /\ written > 0
    /\ DOMAIN ser.sharing.table # {}

\* C19: the bounded sub-allocator never has more capacity in use than was
\* declared, and once every acquired region has been released it is in its
\* initial state again: a request succeeds exactly if it does on a new arena.
C19_BoundedArena ==
    ser.allocator.kind = "SubAllocator"
    => /\ ser.allocator.used <= ser.allocator.cap
       /\ UsedBy(open) <= ser.allocator.cap
       /\ open = <<>>
          => /\ ser.allocator = CoreSerializer(ser.allocator.cap).allocator
             /\ \A size \in Sizes, align \in Aligns :
                   Serializer_push_alloc(ser, size, align).res
                     = Serializer_push_alloc(CoreSerializer(ser.allocator.cap), size, align).res

\* a region that filled the whole arena was released, and nothing is open
C19_Witness ==
    /\ ser.allocator.kind = "SubAllocator"
    /\ call.op = "pop_alloc" /\ call.res = "Ok"
    /\ call.size = ser.allocator.cap
    /\ open = <<>> /\ ser.allocator.used = 0

====
